---- MODULE Spec2Model ----
(***************************************************************************)
(* A model of src/app.py, the Streamlit "Contract Platform" wizard.        *)
(*                                                                         *)
(* One action of the model is one run of the script (main()) for one       *)
(* session: a run is started by a widget event of the user on the page     *)
(* that is on the screen, or by a pending st.rerun() request.  st.rerun()  *)
(* ends the run it is called in and queues the next run; while the request *)
(* is pending no widget event is handled.                                  *)
(*                                                                         *)
(* Texts (extracted text, API response) are sequences of characters;       *)
(* messages are sequences of string pieces (an f-string's literal parts    *)
(* and its interpolated values).                                           *)
(***************************************************************************)
EXTENDS Integers, Sequences, FiniteSets, TLC

VARIABLES
    step,              \* st.session_state.step
    contract_data,     \* st.session_state.contract_data (a dict: key -> value)
    processing_status, \* st.session_state.processing_status
    uploaded,          \* the value held by the st.file_uploader widget
    rerun_requested,   \* st.rerun() was called and the next run has not started
    page,              \* what the last script run put on the screen
    run,               \* what the last script run did (locals of its handlers)
    other              \* a second user's session: the same seven, as a record

\* The first seven variables are the session whose script is running or ran
\* last (the session st.session_state resolves to); `other` is the session
\* of a second browser, which takes the first one's place when it runs.
vars == <<step, contract_data, processing_status, uploaded, rerun_requested, page, run,
          other>>

----------------------------------------------------------------------------
(* Bounds of the model *)

MaxTextLen == 1     \* longest text of a page / paragraph / text file
MaxParts == 1       \* most pages of a PDF, most paragraphs of a DOCX

----------------------------------------------------------------------------
(* Values *)

Steps == {"home", "upload", "form", "generate"}

Chars == {"a"}
NL == "\n"

Texts == UNION {[1..n -> Chars] : n \in 0..MaxTextLen}
PartSeqs == UNION {[1..n -> Texts] : n \in 0..MaxParts}

MimePdf == "application/pdf"
MimeDoc == "application/msword"
MimeDocx == "application/vnd.openxmlformats-officedocument.wordprocessingml.document"
MimeTxt == "text/plain"
MimeOther == "image/png"
MimeTypes == {MimePdf, MimeDoc, MimeDocx, MimeTxt, MimeOther}

\* extracted_text[:1000]: the length the preview is cut at
PreviewLimit == 1000

\* A text one character longer than the preview's limit
LongText ==
    [i \in 1..(PreviewLimit + 1) |->
        IF i = 1 THEN "b" ELSE IF i = PreviewLimit + 1 THEN "c" ELSE "a"]

\* Byte buffers, by what they are: a PDF with its pages' texts, a DOCX with
\* its paragraphs' texts, UTF-8 text, or bytes that are none of these.
Buffers ==
    {[kind |-> "pdf", parts |-> p] : p \in PartSeqs}
    \cup {[kind |-> "docx", parts |-> p] : p \in PartSeqs}
    \cup {[kind |-> "txt", parts |-> <<t>>] : t \in Texts \cup {LongText}}
    \cup {[kind |-> "bin", parts |-> <<>>]}

\* An uploaded file: the MIME type the browser declares and the bytes.  The
\* declared type is independent of what the bytes are.
Files == [type : MimeTypes, contents : Buffers]
NoFile == [type |-> "none", contents |-> [kind |-> "none", parts |-> <<>>]]

Party1Values == {"", "Acme"}
Party2Values == {"", "Globex"}
CommodityValues == {"", "Wheat"}
QuantityValues == {0, 100}                 \* st.number_input, min_value=0
PriceValues == {0, 5}                      \* st.number_input, min_value=0.0 (0.0, 5.0)
CurrencyOptions == <<"USD", "EUR", "GBP">>
TemplateOptions == <<"London", "Chicago", "Dubai">>
\* the selections the model submits: the default option and another one
CurrencyValues == {CurrencyOptions[1], CurrencyOptions[3]}
TemplateValues == {TemplateOptions[1], TemplateOptions[2]}

FormOrder == <<"party1", "party2", "commodity", "quantity", "price", "currency", "template">>

\* form_data as the submit handler builds it from the widgets' values
FormData ==
    [party1 : Party1Values, party2 : Party2Values, commodity : CommodityValues,
     quantity : QuantityValues, price : PriceValues,
     currency : CurrencyValues, template : TemplateValues]

required_fields ==
    [party1 |-> "Party 1 Name", party2 |-> "Party 2 Name",
     commodity |-> "Commodity Description", quantity |-> "Quantity",
     price |-> "Price per unit"]

\* The states of the external completion service during a request
ApiEnv ==
    {[kind |-> "ok", content |-> <<" ", "c", NL>>],
     [kind |-> "network_error", content |-> <<>>],
     [kind |-> "auth_error", content |-> <<>>],
     [kind |-> "malformed", content |-> <<>>]}
NoApi == [kind |-> "none", content |-> <<>>]

\* The module never binds the name `client` (only openai.api_key is set)
ClientDefined == FALSE

----------------------------------------------------------------------------
(* Python helpers *)

EmptyDict == [k \in {} |-> ""]

\* Mutant of SetItem: the dict is replaced by one holding the new key only
SetItem_mut(d, key, v) == [k \in {key} |-> v]

SetItem(d, key, v) == [k \in DOMAIN d \cup {key} |-> IF k = key THEN v ELSE d[k]]

\* Mutant of Update: keys already present keep their old value (setdefault)
Update_mut(d, e) == [k \in DOMAIN d \cup DOMAIN e |-> IF k \in DOMAIN d THEN d[k] ELSE e[k]]

Update(d, e) == [k \in DOMAIN d \cup DOMAIN e |-> IF k \in DOMAIN e THEN e[k] ELSE d[k]]

\* sep.join(parts), parts a sequence of sequences
RECURSIVE Join(_, _)
Join(sep, parts) ==
    IF Len(parts) = 0 THEN <<>>
    ELSE IF Len(parts) = 1 THEN parts[1]
    ELSE parts[1] \o sep \o Join(sep, Tail(parts))

IsSpace(c) == c \in {" ", NL}

RECURSIVE LStrip(_)
LStrip(s) == IF Len(s) > 0 /\ IsSpace(s[1]) THEN LStrip(Tail(s)) ELSE s

RECURSIVE RStrip(_)
RStrip(s) ==
    IF Len(s) > 0 /\ IsSpace(s[Len(s)]) THEN RStrip(SubSeq(s, 1, Len(s) - 1)) ELSE s

Strip(s) == RStrip(LStrip(s))

\* The result of a call: a returned value or a raised exception
Return(v) == [raised |-> FALSE, value |-> v, msg |-> <<>>]
Raise(m) == [raised |-> TRUE, value |-> <<>>, msg |-> m]

----------------------------------------------------------------------------
(* Text extraction *)

\* for page in pdf.pages: text += page.extract_text() + "\n"
RECURSIVE PdfPagesText(_)
PdfPagesText(pages) ==
    IF Len(pages) = 0 THEN <<>>
    ELSE pages[1] \o <<NL>> \o PdfPagesText(Tail(pages))

extract_text_from_pdf(file_contents) ==
    IF file_contents.kind = "pdf"
    THEN Return(PdfPagesText(file_contents.parts))
    ELSE Raise(<<"Failed to process PDF file. Please ensure the file is not corrupted.">>)

extract_text_from_docx(file_contents) ==
    IF file_contents.kind = "docx"
    THEN Return(Join(<<NL>>, file_contents.parts))
    ELSE Raise(<<"Failed to process DOCX file. Please ensure the file is not corrupted.">>)

\* bytes.decode('utf-8'): text decodes to itself, a PDF of ASCII bytes decodes
\* to its raw source, a DOCX (a zip archive) and other binary bytes do not decode.
decode_utf8(file_contents) ==
    IF file_contents.kind = "txt" THEN Return(file_contents.parts[1])
    ELSE IF file_contents.kind = "pdf" THEN Return(<<"%", "P", "D", "F">>)
    ELSE Raise(<<"'utf-8' codec can't decode byte">>)

\* Mutant of process_try: the path is chosen by sniffing the bytes, not by
\* the declared MIME type
process_try_mut(uploaded_file) ==
    LET file_contents == uploaded_file.contents
        file_type == uploaded_file.type
    IN  IF file_contents.kind = "pdf"
        THEN [extractor |-> "pdf", res |-> extract_text_from_pdf(file_contents)]
        ELSE IF file_contents.kind = "docx"
        THEN [extractor |-> "docx", res |-> extract_text_from_docx(file_contents)]
        ELSE IF file_contents.kind = "txt"
        THEN [extractor |-> "utf8", res |-> decode_utf8(file_contents)]
        ELSE [extractor |-> "none",
              res |-> Raise(<<"Unsupported file type: ", file_type>>)]

\* The try-body of process_uploaded_file: the extractor called and its result
process_try(uploaded_file) ==
    LET file_contents == uploaded_file.contents
        file_type == uploaded_file.type
    IN  IF file_type = MimePdf
        THEN [extractor |-> "pdf", res |-> extract_text_from_pdf(file_contents)]
        ELSE IF file_type \in {MimeDoc, MimeDocx}
        THEN [extractor |-> "docx", res |-> extract_text_from_docx(file_contents)]
        ELSE IF file_type = MimeTxt
        THEN [extractor |-> "utf8", res |-> decode_utf8(file_contents)]
        ELSE [extractor |-> "none",
              res |-> Raise(<<"Unsupported file type: ", file_type>>)]

\* Mutant of process_except: the handler re-raises
process_except_mut(t) ==
    [extractor |-> t.extractor, none |-> TRUE, value |-> <<>>,
     st_error |-> <<>>, raised |-> TRUE]

\* except Exception as e: st.error(...); return None
process_except(t) ==
    [extractor |-> t.extractor, none |-> TRUE, value |-> <<>>,
     st_error |-> <<"Error processing file: ">> \o t.res.msg, raised |-> FALSE]

process_uploaded_file(uploaded_file) ==
    LET t == process_try(uploaded_file)
    IN  IF t.res.raised
        THEN process_except(t)
        ELSE [extractor |-> t.extractor, none |-> FALSE, value |-> t.res.value,
              st_error |-> <<>>, raised |-> FALSE]

\* Mutant of preview_text: the cut is one character late
preview_text_mut(text) ==
    IF Len(text) > PreviewLimit
    THEN SubSeq(text, 1, PreviewLimit + 1) \o <<".", ".", ".">>
    ELSE text

\* extracted_text[:1000] + "..." if len(extracted_text) > 1000 else extracted_text
preview_text(text) ==
    IF Len(text) > PreviewLimit
    THEN SubSeq(text, 1, PreviewLimit) \o <<".", ".", ".">>
    ELSE text

\* Python truthiness of an Optional[str]
TruthyText(r) == ~r.none /\ Len(r.value) > 0

----------------------------------------------------------------------------
(* Form validation *)

\* `not value` for a form field: "" for the text fields, 0 / 0.0 for the numbers
Falsy(field, value) ==
    IF field \in {"quantity", "price"} THEN value = 0 ELSE value = ""

\* Mutant of missing_fields: the price is not checked
missing_fields_mut(form_data) ==
    SelectSeq(FormOrder,
              LAMBDA field : field \in DOMAIN required_fields \ {"price"}
                             /\ Falsy(field, form_data[field]))

\* Mutant of missing_fields: the quantity is not checked
missing_fields_mut_qty(form_data) ==
    SelectSeq(FormOrder,
              LAMBDA field : field \in DOMAIN required_fields \ {"quantity"}
                             /\ Falsy(field, form_data[field]))

missing_fields(form_data) ==
    SelectSeq(FormOrder,
              LAMBDA field : field \in DOMAIN required_fields
                             /\ Falsy(field, form_data[field]))

\* Mutant of validation_error: the message lists the keys, not the labels
validation_error_mut(missing) ==
    <<"Please fill in all required fields: ">>
    \o Join(<<", ">>, [i \in 1..Len(missing) |-> <<missing[i]>>])

validation_error(missing) ==
    <<"Please fill in all required fields: ">>
    \o Join(<<", ">>, [i \in 1..Len(missing) |-> <<required_fields[missing[i]]>>])

----------------------------------------------------------------------------
(* Contract generation *)

Digits == <<"0", "1", "2", "3", "4", "5", "6", "7", "8", "9">>

\* str(n) of an int n >= 0: its decimal digits
RECURSIVE IntStr(_)
IntStr(n) ==
    IF n < 10 THEN <<Digits[n + 1]>>
    ELSE IntStr(n \div 10) \o <<Digits[(n % 10) + 1]>>

\* str(x) of a float x >= 0 with a whole value (the model's prices): "5.0"
FloatStr(x) == IntStr(x) \o <<".", "0">>

\* str(contract_data.get(key)) as an f-string interpolates it
FieldStr(data, key) ==
    IF key \notin DOMAIN data THEN <<"None">>
    ELSE IF key = "quantity" THEN IntStr(data[key])
    ELSE IF key = "price" THEN FloatStr(data[key])
    ELSE <<data[key]>>

\* Mutant of build_prompt: the quantity line interpolates the price
build_prompt_mut(data) ==
    <<"Generate a legal contract based on the following information:", NL,
      "PARTIES:", NL>>
    \o <<"- ", "Party 1: ">> \o FieldStr(data, "party1") \o <<NL>>
    \o <<"- ", "Party 2: ">> \o FieldStr(data, "party2") \o <<NL>>
    \o <<"TERMS:", NL>>
    \o <<"- ", "Commodity: ">> \o FieldStr(data, "commodity") \o <<NL>>
    \o <<"- ", "Quantity: ">> \o FieldStr(data, "price") \o <<NL>>
    \o <<"- ", "Price: ">> \o FieldStr(data, "price") \o <<" ">>
        \o FieldStr(data, "currency") \o <<" per unit", NL>>
    \o <<"- ", "Template Style: ">> \o FieldStr(data, "template") \o <<NL>>
    \o <<"Please generate a complete, professionally formatted, and legally binding contract.", NL,
          "Include standard clauses for dispute resolution, termination, and force majeure.", NL>>

\* prompt = f"""...""": the literal pieces and the interpolated fields
build_prompt(data) ==
    <<"Generate a legal contract based on the following information:", NL,
      "PARTIES:", NL>>
    \o <<"- ", "Party 1: ">> \o FieldStr(data, "party1") \o <<NL>>
    \o <<"- ", "Party 2: ">> \o FieldStr(data, "party2") \o <<NL>>
    \o <<"TERMS:", NL>>
    \o <<"- ", "Commodity: ">> \o FieldStr(data, "commodity") \o <<NL>>
    \o <<"- ", "Quantity: ">> \o FieldStr(data, "quantity") \o <<NL>>
    \o <<"- ", "Price: ">> \o FieldStr(data, "price") \o <<" ">>
        \o FieldStr(data, "currency") \o <<" per unit", NL>>
    \o <<"- ", "Template Style: ">> \o FieldStr(data, "template") \o <<NL>>
    \o <<"Please generate a complete, professionally formatted, and legally binding contract.", NL,
          "Include standard clauses for dispute resolution, termination, and force majeure.", NL>>

\* The try-body of generate_contract under the service state `api`
generate_try(api) ==
    IF ~ClientDefined THEN Raise(<<"name 'client' is not defined">>)
    ELSE IF api.kind = "ok" THEN Return(Strip(api.content))
    ELSE Raise(<<api.kind>>)

GenericError ==
    <<"An error occurred while generating the contract. Please try again or contact support.">>

----------------------------------------------------------------------------
(* Pages and runs *)

\* steps = {...}: the sidebar's label of each step (without the emoji)
steps ==
    [home |-> "Home", upload |-> "Upload", form |-> "Form", generate |-> "Generate"]

\* The page a run routed to `scr` starts with: the sidebar line and the
\* page's header, nothing else yet
BlankPage(scr) ==
    [screen |-> scr, sidebar |-> <<"Current Step: ", steps[scr]>>,
     error |-> <<>>, success |-> FALSE, preview |-> <<>>, continue_btn |-> FALSE,
     contract_shown |-> FALSE, contract |-> <<>>, download_btn |-> FALSE]

NoForm == EmptyDict

\* An Optional[str] return value
NoneValue == [none |-> TRUE, value |-> <<>>]

IdleRun ==
    [extractor |-> "none", returned |-> NoneValue,
     submitted |-> FALSE, form_data |-> NoForm,
     prompt |-> <<>>, completion_calls |-> 0,
     api_env |-> NoApi, call |-> "none", escaped |-> FALSE]

\* A session after its first run
InitialSession ==
    [step |-> "home", contract_data |-> EmptyDict, processing_status |-> "None",
     uploaded |-> NoFile, rerun_requested |-> FALSE,
     page |-> BlankPage("home"), run |-> IdleRun]

Init ==
    /\ step = "home"
    /\ contract_data = EmptyDict
    /\ processing_status = "None"
    /\ uploaded = NoFile
    /\ rerun_requested = FALSE
    /\ page = BlankPage("home")
    /\ run = IdleRun
    /\ other = InitialSession

\* Mutant of StateScope: step and contract_data are kept in module-level
\* globals, one copy for the whole process
StateScope_mut == "process"

\* Where the handlers keep step and contract_data: in st.session_state,
\* one copy per session
StateScope == "session"

\* What a run of one session does to the other session
SessionFrame ==
    IF StateScope = "session"
    THEN other' = other
    ELSE other' = [other EXCEPT !.step = step', !.contract_data = contract_data']

\* st.session_state.step = target; st.rerun()
GoTo(target, scr) ==
    /\ step' = target
    /\ rerun_requested' = TRUE
    /\ page' = BlankPage(scr)

Stay(p) ==
    /\ step' = step
    /\ rerun_requested' = FALSE
    /\ page' = p

\* Mutant of home: a misspelt step name
home_mut(ev) ==
    /\ step' = (IF ev = "upload_btn" THEN "uploads"
                ELSE IF ev = "form_btn" THEN "form" ELSE step)
    /\ rerun_requested' = FALSE
    /\ page' = BlankPage("home")
    /\ uploaded' = NoFile
    /\ run' = IdleRun
    /\ UNCHANGED contract_data

\* home(): the two buttons set step and do not rerun
home(ev) ==
    /\ step' = (IF ev = "upload_btn" THEN "upload"
                ELSE IF ev = "form_btn" THEN "form" ELSE step)
    /\ rerun_requested' = FALSE
    /\ page' = BlankPage("home")
    /\ uploaded' = NoFile
    /\ run' = IdleRun
    /\ UNCHANGED contract_data

\* if st.button("Back to Home", key="back_upload"): ...
back_upload ==
    /\ GoTo("home", "upload")
    /\ uploaded' = NoFile
    /\ run' = IdleRun
    /\ UNCHANGED contract_data

\* upload_documents() with the uploader holding `file`
upload_documents(ev, file) ==
    IF ev = "back_upload"
    THEN back_upload
    ELSE /\ uploaded' = file
         /\ IF file = NoFile
            THEN /\ Stay(BlankPage("upload"))
                 /\ run' = IdleRun
                 /\ UNCHANGED contract_data
            ELSE LET extracted_text == process_uploaded_file(file)
                 IN  /\ run' = [IdleRun EXCEPT
                                   !.extractor = extracted_text.extractor,
                                   !.returned = [none |-> extracted_text.none,
                                                 value |-> extracted_text.value],
                                   !.escaped = extracted_text.raised]
                     /\ IF extracted_text.raised
                        THEN /\ Stay(BlankPage("upload"))
                             /\ UNCHANGED contract_data
                        ELSE IF TruthyText(extracted_text)
                        THEN /\ contract_data' =
                                    SetItem(contract_data, "extracted_text", extracted_text.value)
                             /\ IF ev = "continue_btn"
                                THEN GoTo("form", "upload")
                                ELSE Stay([BlankPage("upload") EXCEPT
                                              !.success = TRUE,
                                              !.preview = preview_text(extracted_text.value),
                                              !.continue_btn = TRUE])
                        ELSE /\ Stay([BlankPage("upload") EXCEPT
                                         !.error = extracted_text.st_error])
                             /\ UNCHANGED contract_data

\* Mutant of back_form: going back resets the collected data
back_form_mut ==
    /\ GoTo("home", "form")
    /\ run' = IdleRun
    /\ contract_data' = EmptyDict

\* if st.button("Back to Home", key="back_form"): ...
back_form ==
    /\ GoTo("home", "form")
    /\ run' = IdleRun
    /\ UNCHANGED contract_data

\* application_form(); form_data are the widgets' values at the submit
application_form(ev, form_data) ==
    /\ uploaded' = NoFile
    /\ IF ev = "back_form"
       THEN back_form
       ELSE IF ev = "submit"
       THEN LET missing == missing_fields(form_data)
            IN  /\ run' = [IdleRun EXCEPT !.submitted = TRUE, !.form_data = form_data]
                /\ IF Len(missing) > 0
                   THEN /\ Stay([BlankPage("form") EXCEPT !.error = validation_error(missing)])
                        /\ UNCHANGED contract_data
                   ELSE /\ contract_data' = Update(contract_data, form_data)
                        /\ GoTo("generate", "form")
       ELSE /\ Stay(BlankPage("form"))
            /\ run' = IdleRun
            /\ UNCHANGED contract_data

\* What the try-body of generate_contract does before the call returns or
\* raises: it builds the prompt and evaluates the completion call once
GenerateRun(api) ==
    [IdleRun EXCEPT !.api_env = api,
                    !.prompt = build_prompt(contract_data),
                    !.completion_calls = 1]

\* Mutant of generate_except: the handler logs and re-raises
generate_except_mut(api, r) ==
    /\ Stay(BlankPage("generate"))
    /\ run' = [GenerateRun(api) EXCEPT !.call = "failed", !.escaped = TRUE]
    /\ UNCHANGED contract_data

\* Mutant of generate_except: the handler retries by rerunning the script
generate_except_retry(api, r) ==
    /\ GoTo("generate", "generate")
    /\ run' = [GenerateRun(api) EXCEPT !.call = "failed"]
    /\ UNCHANGED contract_data

\* except Exception as e: logger.error(...); st.error(generic message)
generate_except(api, r) ==
    /\ Stay([BlankPage("generate") EXCEPT !.error = GenericError])
    /\ run' = [GenerateRun(api) EXCEPT !.call = "failed"]
    /\ UNCHANGED contract_data

\* Mutant of back_generate: back to home
back_generate_mut ==
    /\ GoTo("home", "generate")
    /\ run' = IdleRun
    /\ UNCHANGED contract_data

\* if st.button("Back to Form", key="back_generate"): ...
back_generate ==
    /\ GoTo("form", "generate")
    /\ run' = IdleRun
    /\ UNCHANGED contract_data

\* generate_contract() while the completion service is in state `api`
generate_contract(ev, api) ==
    /\ uploaded' = NoFile
    /\ IF ev = "back_generate"
       THEN back_generate
       ELSE LET r == generate_try(api)
            IN  IF r.raised
                THEN generate_except(api, r)
                ELSE /\ Stay([BlankPage("generate") EXCEPT
                                 !.contract_shown = TRUE, !.contract = r.value,
                                 !.download_btn = TRUE])
                     /\ run' = [GenerateRun(api) EXCEPT !.call = "ok"]
                     /\ UNCHANGED contract_data

\* main(): __init__ keeps the session state, then routes on step
main(ev, file, form_data) ==
    /\ processing_status' = processing_status
    /\ IF step = "home" THEN home(ev)
       ELSE IF step = "upload" THEN upload_documents(ev, file)
       ELSE IF step = "form" THEN application_form(ev, form_data)
       ELSE IF step = "generate" THEN \E api \in ApiEnv : generate_contract(ev, api)
       ELSE FALSE
    /\ SessionFrame

----------------------------------------------------------------------------
(* The user's events and the pending rerun *)

Idle == ~rerun_requested

ClickUploadBtn ==
    /\ Idle /\ page.screen = "home" /\ step = "home"
    /\ main("upload_btn", NoFile, NoForm)

ClickFormBtn ==
    /\ Idle /\ page.screen = "home" /\ step = "home"
    /\ main("form_btn", NoFile, NoForm)

\* A click on the home page that is still on the screen after step was
\* changed: the run routes on step and the clicked button is not rendered.
ClickStaleHome ==
    /\ Idle /\ page.screen = "home" /\ step # "home"
    /\ main("none", NoFile, NoForm)

ChooseFile ==
    /\ Idle /\ page.screen = "upload"
    /\ \E f \in Files : main("none", f, NoForm)

ClearFile ==
    /\ Idle /\ page.screen = "upload" /\ uploaded # NoFile
    /\ main("none", NoFile, NoForm)

ClickBackUpload ==
    /\ Idle /\ page.screen = "upload"
    /\ main("back_upload", uploaded, NoForm)

ClickContinue ==
    /\ Idle /\ page.screen = "upload" /\ page.continue_btn
    /\ main("continue_btn", uploaded, NoForm)

ClickBackForm ==
    /\ Idle /\ page.screen = "form"
    /\ main("back_form", NoFile, NoForm)

SubmitForm ==
    /\ Idle /\ page.screen = "form"
    /\ \E fd \in FormData : main("submit", NoFile, fd)

ClickBackGenerate ==
    /\ Idle /\ page.screen = "generate"
    /\ main("back_generate", NoFile, NoForm)

Rerun ==
    /\ rerun_requested
    /\ main("none", NoFile, NoForm)

Next ==
    \/ ClickUploadBtn
    \/ ClickFormBtn
    \/ ClickStaleHome
    \/ ChooseFile
    \/ ClearFile
    \/ ClickBackUpload
    \/ ClickContinue
    \/ ClickBackForm
    \/ SubmitForm
    \/ ClickBackGenerate
    \/ Rerun

Spec == Init /\ [][Next]_vars

----------------------------------------------------------------------------
(* Two concurrent sessions *)

Current ==
    [step |-> step, contract_data |-> contract_data,
     processing_status |-> processing_status, uploaded |-> uploaded,
     rerun_requested |-> rerun_requested, page |-> page, run |-> run]

\* The next run belongs to the other session
SwitchSession ==
    /\ other' = Current
    /\ step' = other.step
    /\ contract_data' = other.contract_data
    /\ processing_status' = other.processing_status
    /\ uploaded' = other.uploaded
    /\ rerun_requested' = other.rerun_requested
    /\ page' = other.page
    /\ run' = other.run

\* The uploads and submissions of the two-session model
SessionFiles ==
    {[type |-> MimeTxt, contents |-> [kind |-> "txt", parts |-> <<<<"a">>>>]],
     [type |-> MimeOther, contents |-> [kind |-> "bin", parts |-> <<>>]]}

SessionForms ==
    {[party1 |-> "Acme", party2 |-> "Globex", commodity |-> "Wheat",
      quantity |-> 100, price |-> 5, currency |-> "USD", template |-> "London"],
     [party1 |-> "Acme", party2 |-> "", commodity |-> "Wheat",
      quantity |-> 100, price |-> 0, currency |-> "GBP", template |-> "Chicago"]}

ChooseSessionFile ==
    /\ Idle /\ page.screen = "upload"
    /\ \E f \in SessionFiles : main("none", f, NoForm)

SubmitSessionForm ==
    /\ Idle /\ page.screen = "form"
    /\ \E fd \in SessionForms : main("submit", NoFile, fd)

Next2 ==
    \/ ClickUploadBtn
    \/ ClickFormBtn
    \/ ClickStaleHome
    \/ ChooseSessionFile
    \/ ClearFile
    \/ ClickBackUpload
    \/ ClickContinue
    \/ ClickBackForm
    \/ SubmitSessionForm
    \/ ClickBackGenerate
    \/ Rerun
    \/ SwitchSession

Spec2 == Init /\ [][Next2]_vars

----------------------------------------------------------------------------
(* Properties *)

FormKeys == {"party1", "party2", "commodity", "quantity", "price", "currency", "template"}

\* some required field of the submission is empty or zero
HasEmptyRequired(fd) ==
    \/ fd.party1 = ""
    \/ fd.party2 = ""
    \/ fd.commodity = ""
    \/ fd.quantity = 0
    \/ fd.price = 0

\* the last run handled a form submission
Submitted == run.submitted

\* the run that leads to the primed state processed the file in the uploader
ProcessedFile == step = "upload" /\ uploaded' # NoFile

\* C1: step starts as home and is one of home, upload, form, generate in
\* every reachable state.
C1_StepEnumerated == (step = "home") /\ [](step \in Steps)

C1_Witness == step = "generate" /\ page.screen = "generate" /\ run.call = "failed"

AllowedTransitions ==
    {<<"home", "upload">>, <<"home", "form">>, <<"upload", "form">>,
     <<"form", "generate">>, <<"upload", "home">>, <<"form", "home">>,
     <<"generate", "form">>}

\* C2: every change of step is one of the seven listed transitions.
C2_Transitions == [][step' # step => <<step, step'>> \in AllowedTransitions]_vars

C2_Witness ==
    /\ step = "generate"
    /\ "extracted_text" \in DOMAIN contract_data
    /\ "party1" \in DOMAIN contract_data

\* C3 as stated: every back button returns step to home and leaves
\* contract_data as it was.
C3_BackAlwaysHome ==
    [][(ClickBackUpload \/ ClickBackForm \/ ClickBackGenerate)
        => step' = "home" /\ contract_data' = contract_data]_vars

\* C3 as amended: the back buttons of upload and form return step to home,
\* the back button of generate returns step to form, and each of them leaves
\* contract_data as it was.
C3_BackNavigation ==
    [][/\ (ClickBackUpload \/ ClickBackForm)
            => step' = "home" /\ contract_data' = contract_data
       /\ ClickBackGenerate
            => step' = "form" /\ contract_data' = contract_data]_vars

C3_Witness ==
    /\ rerun_requested
    /\ page.screen = "form"
    /\ step = "home"
    /\ "party1" \in DOMAIN contract_data

\* C4: a submission with an empty or zero required field is rejected: step
\* stays form and contract_data is unchanged.
C4_RejectedSubmit ==
    [][(run'.submitted /\ HasEmptyRequired(run'.form_data))
        => /\ step = "form"
           /\ step' = "form"
           /\ ~rerun_requested'
           /\ contract_data' = contract_data]_vars

C4_Witness ==
    /\ Submitted
    /\ HasEmptyRequired(run.form_data)
    /\ run.form_data.party1 # ""
    /\ "party1" \in DOMAIN contract_data
    /\ step = "form"

\* C5: a submission with all five required fields filled sets step to
\* generate, and contract_data then maps each of the seven form fields to the
\* submitted value.
C5_ValidSubmit ==
    (Submitted /\ ~HasEmptyRequired(run.form_data))
        => /\ step = "generate"
           /\ \A k \in FormKeys :
                k \in DOMAIN contract_data /\ contract_data[k] = run.form_data[k]

C5_Witness ==
    /\ Submitted
    /\ ~HasEmptyRequired(run.form_data)
    /\ step = "generate"
    /\ "extracted_text" \in DOMAIN contract_data

\* C6: when the completion call of a generate run fails, step stays generate,
\* contract_data is unchanged, the generic message is shown and no exception
\* escapes generate_contract.
C6_GenerationFailure ==
    [][(step = "generate" /\ run'.api_env # NoApi /\ generate_try(run'.api_env).raised)
        => /\ step' = "generate"
           /\ contract_data' = contract_data
           /\ page'.error = GenericError
           /\ ~run'.escaped]_vars

C6_Witness ==
    /\ step = "generate"
    /\ run.api_env.kind = "network_error"
    /\ page.error = GenericError

\* C7: when the generate step is rendered and the completion service
\* responds, the returned text is displayed and the download is offered.
C7_SuccessDisplayed ==
    run.api_env.kind = "ok"
        => /\ page.contract_shown
           /\ page.contract = Strip(run.api_env.content)
           /\ page.download_btn

\* C8: when processing the uploaded file fails, the failure is caught in
\* process_uploaded_file, an error message is shown, step stays upload,
\* contract_data is unchanged and the continue button is not offered.
C8_FileFailure ==
    [][(ProcessedFile /\ process_try(uploaded').res.raised)
        => /\ ~run'.escaped
           /\ run'.returned.none
           /\ Len(page'.error) > 0
           /\ page'.error[1] = "Error processing file: "
           /\ step' = "upload"
           /\ contract_data' = contract_data
           /\ ~page'.continue_btn]_vars

C8_Witness ==
    /\ step = "upload"
    /\ uploaded # NoFile
    /\ uploaded.type = MimePdf
    /\ Len(page.error) > 0
    /\ "extracted_text" \in DOMAIN contract_data

\* the text the extractor of the declared type yields for the file
ExtractionOf(f) ==
    IF f.type = MimePdf THEN extract_text_from_pdf(f.contents)
    ELSE IF f.type \in {MimeDoc, MimeDocx} THEN extract_text_from_docx(f.contents)
    ELSE IF f.type = MimeTxt THEN decode_utf8(f.contents)
    ELSE Raise(<<"Unsupported file type: ", f.type>>)

\* C9: whenever the extraction of the uploaded document succeeds, also with
\* an empty text, the full text is stored in contract_data['extracted_text']
\* and the continue button is offered; and step goes from upload to form only
\* when the uploaded file's extraction succeeded and its text is stored.
C9_ExtractionStored ==
    [][/\ (ProcessedFile /\ ~ExtractionOf(uploaded').raised)
            => /\ "extracted_text" \in DOMAIN contract_data'
               /\ contract_data'["extracted_text"] = ExtractionOf(uploaded').value
               /\ (step' = "upload" => page'.continue_btn)
       /\ (step = "upload" /\ step' = "form")
            => /\ uploaded # NoFile
               /\ ~ExtractionOf(uploaded).raised
               /\ "extracted_text" \in DOMAIN contract_data
               /\ contract_data["extracted_text"] = ExtractionOf(uploaded).value]_vars

ExpectedExtractor(type) ==
    IF type = MimePdf THEN "pdf"
    ELSE IF type \in {MimeDoc, MimeDocx} THEN "docx"
    ELSE IF type = MimeTxt THEN "utf8"
    ELSE "none"

\* C10: the declared MIME type alone selects the extraction path, an
\* unsupported type fails with the unsupported-type error and no extractor
\* is called, and process_uploaded_file returns the extracted text or None
\* and never raises.
C10_MimeDispatch ==
    uploaded # NoFile
        => /\ run.extractor = ExpectedExtractor(uploaded.type)
           /\ ~run.escaped
           /\ IF ExtractionOf(uploaded).raised
              THEN run.returned = NoneValue
              ELSE run.returned = [none |-> FALSE, value |-> ExtractionOf(uploaded).value]
           /\ uploaded.type \notin {MimePdf, MimeDoc, MimeDocx, MimeTxt}
                => /\ run.extractor = "none"
                   /\ run.returned = NoneValue
                   /\ page.error = <<"Error processing file: ",
                                     "Unsupported file type: ", uploaded.type>>

C10_Witness ==
    /\ uploaded # NoFile
    /\ uploaded.type = MimeTxt
    /\ uploaded.contents.kind = "pdf"
    /\ run.extractor = "utf8"
    /\ ~run.returned.none

\* seq holds sub as a run of consecutive elements
Contains(seq, sub) ==
    \E i \in 1..(Len(seq) - Len(sub) + 1) : SubSeq(seq, i, i + Len(sub) - 1) = sub

\* the text Python prints for the value stored under key: 100 -> "100",
\* 5.0 -> "5.0", a string as it is, a missing key as None
Shown(key) ==
    IF key \notin DOMAIN contract_data THEN <<"None">>
    ELSE IF key = "quantity"
    THEN (IF contract_data[key] = 100 THEN <<"1", "0", "0">> ELSE <<"0">>)
    ELSE IF key = "price"
    THEN (IF contract_data[key] = 5 THEN <<"5", ".", "0">> ELSE <<"0", ".", "0">>)
    ELSE <<contract_data[key]>>

\* the last run rendered the generate page to its end (no back click)
GenerateRendered == page.screen = "generate" /\ ~rerun_requested

\* C11: the prompt built in the generate step contains "Party 1: <party1>",
\* "Party 2: <party2>", "Commodity: <commodity>", "Quantity: <quantity>" and
\* "Price: <price>" with the values of contract_data.
C11_PromptFields ==
    GenerateRendered
        => /\ Contains(run.prompt, <<"Party 1: ">> \o Shown("party1") \o <<NL>>)
           /\ Contains(run.prompt, <<"Party 2: ">> \o Shown("party2") \o <<NL>>)
           /\ Contains(run.prompt, <<"Commodity: ">> \o Shown("commodity") \o <<NL>>)
           /\ Contains(run.prompt, <<"Quantity: ">> \o Shown("quantity") \o <<NL>>)
           /\ Contains(run.prompt, <<"Price: ">> \o Shown("price") \o <<" ">>)

C11_Witness ==
    /\ GenerateRendered
    /\ Contains(run.prompt, <<"Party 1: ", "Acme">>)
    /\ Contains(run.prompt, <<"Party 2: ", "Globex">>)
    /\ Contains(run.prompt, <<"Commodity: ", "Wheat">>)
    /\ Contains(run.prompt, <<"Quantity: ", "1", "0", "0", NL>>)
    /\ Contains(run.prompt, <<"Price: ", "5", ".", "0", " ">>)

\* C12: when the handling of a user action has ended (no rerun is pending),
\* the page on the screen and the sidebar's current-step label are those of
\* the value step has then.
C12_ScreenFollowsStep ==
    ~rerun_requested
        => /\ page.screen = step
           /\ page.sidebar = <<"Current Step: ", steps[step]>>

\* the labels of the falsy required fields of fd, in the form's order,
\* separated by ", "
RECURSIVE CommaList(_)
CommaList(labels) ==
    IF Len(labels) = 0 THEN <<>>
    ELSE IF Len(labels) = 1 THEN <<labels[1]>>
    ELSE <<labels[1], ", ">> \o CommaList(Tail(labels))

FalsyLabels(fd) ==
    (IF fd.party1 = "" THEN <<"Party 1 Name">> ELSE <<>>)
    \o (IF fd.party2 = "" THEN <<"Party 2 Name">> ELSE <<>>)
    \o (IF fd.commodity = "" THEN <<"Commodity Description">> ELSE <<>>)
    \o (IF fd.quantity = 0 THEN <<"Quantity">> ELSE <<>>)
    \o (IF fd.price = 0 THEN <<"Price per unit">> ELSE <<>>)

\* C13: a rejected submission's message lists the labels of exactly the
\* falsy required fields, in the order party1, party2, commodity, quantity,
\* price; there is no message when no required field is falsy.
C13_MissingLabels ==
    Submitted
        => page.error =
             (IF Len(FalsyLabels(run.form_data)) = 0 THEN <<>>
              ELSE <<"Please fill in all required fields: ">>
                   \o CommaList(FalsyLabels(run.form_data)))

C13_Witness ==
    /\ Submitted
    /\ page.error = <<"Please fill in all required fields: ",
                      "Party 2 Name", ", ", "Price per unit">>

\* C14: in every state with step different from home in which the handling
\* of the last action has ended, a back button can be clicked.
C14_BackEnabled ==
    (~rerun_requested /\ step # "home")
        => ENABLED (ClickBackUpload \/ ClickBackForm \/ ClickBackGenerate)

\* C15: a run evaluates the completion call at most once, only when it
\* starts and ends with step generate, never on the back button, and a failed
\* call queues no further run: the next call needs a new user action.
C15_NoAutomaticRetry ==
    [][/\ run'.completion_calls <= 1
       /\ run'.completion_calls = 1 => (step = "generate" /\ step' = "generate")
       /\ step # "generate" => run'.completion_calls = 0
       /\ ClickBackGenerate => run'.completion_calls = 0
       /\ run'.call = "failed" => ~rerun_requested']_vars

C15_Witness ==
    /\ step = "generate"
    /\ run.completion_calls = 1
    /\ run.call = "failed"
    /\ ~rerun_requested

IsPrefix(a, b) == Len(a) <= Len(b) /\ SubSeq(b, 1, Len(a)) = a

\* a successful upload is on the screen
UploadShown == page.screen = "upload" /\ page.success

\* C16 as stated: the preview is the whole text when it has at most 1000
\* characters, otherwise it has at most 1000 characters and is a prefix of
\* the text; the stored text is never truncated.
C16_PreviewPrefix ==
    UploadShown
        => /\ contract_data["extracted_text"] = ExtractionOf(uploaded).value
           /\ IF Len(contract_data["extracted_text"]) <= 1000
              THEN page.preview = contract_data["extracted_text"]
              ELSE /\ Len(page.preview) <= 1000
                   /\ IsPrefix(page.preview, contract_data["extracted_text"])

\* C16 as amended: the preview is the whole text when it has at most 1000
\* characters, otherwise it is the first 1000 characters of the text
\* followed by "..." (1003 characters); the stored text is never truncated.
C16_PreviewEllipsis ==
    UploadShown
        => /\ contract_data["extracted_text"] = ExtractionOf(uploaded).value
           /\ IF Len(contract_data["extracted_text"]) <= 1000
              THEN page.preview = contract_data["extracted_text"]
              ELSE /\ Len(page.preview) = 1003
                   /\ IsPrefix(SubSeq(page.preview, 1, 1000),
                               contract_data["extracted_text"])
                   /\ SubSeq(page.preview, 1001, 1003) = <<".", ".", ".">>

C16_Witness ==
    /\ UploadShown
    /\ Len(contract_data["extracted_text"]) = 1001
    /\ Len(page.preview) = 1003

\* C18: whenever step is generate, contract_data holds a non-empty party1,
\* party2 and commodity, a non-zero quantity and price, a currency and a
\* template, and a prompt that was built holds no None.
C18_GenerateHasRequired ==
    step = "generate"
        => /\ FormKeys \subseteq DOMAIN contract_data
           /\ contract_data["party1"] # ""
           /\ contract_data["party2"] # ""
           /\ contract_data["commodity"] # ""
           /\ contract_data["quantity"] # 0
           /\ contract_data["price"] # 0
           /\ \A i \in 1..Len(run.prompt) : run.prompt[i] # "None"

C18_Witness ==
    /\ step = "generate"
    /\ Len(run.prompt) > 0
    /\ contract_data["currency"] = "GBP"

AllKeys == FormKeys \cup {"extracted_text"}

\* C19: no action removes a key of contract_data, its keys are among the
\* seven form fields and extracted_text, a successful submission leaves
\* extracted_text as it was, and a successful upload changes no other key.
C19_DataOnlyGrows ==
    [][/\ DOMAIN contract_data \subseteq DOMAIN contract_data'
       /\ DOMAIN contract_data' \subseteq AllKeys
       /\ (run'.submitted /\ ~HasEmptyRequired(run'.form_data))
            => /\ ("extracted_text" \in DOMAIN contract_data')
                    = ("extracted_text" \in DOMAIN contract_data)
               /\ "extracted_text" \in DOMAIN contract_data
                    => contract_data'["extracted_text"] = contract_data["extracted_text"]
       /\ (ProcessedFile /\ ~ExtractionOf(uploaded').raised)
            => \A k \in DOMAIN contract_data' \ {"extracted_text"} :
                 k \in DOMAIN contract_data /\ contract_data'[k] = contract_data[k]]_vars

C19_Witness ==
    /\ UploadShown
    /\ "party1" \in DOMAIN contract_data
    /\ "extracted_text" \in DOMAIN contract_data

\* C17: with two concurrent sessions, every step is either a run of one
\* session, which leaves the other session's step and contract_data as they
\* were, or the hand-over between the sessions, which changes neither.
C17_SessionsIsolated ==
    [][\/ /\ other'.step = other.step
          /\ other'.contract_data = other.contract_data
       \/ /\ other' = Current
          /\ Current' = other]_vars

C17_Witness ==
    /\ other.step = "generate"
    /\ "party1" \in DOMAIN other.contract_data
    /\ step = "upload"
    /\ "extracted_text" \in DOMAIN contract_data
    /\ "party1" \notin DOMAIN contract_data

====
